---- MODULE Spec2Model ----
(***************************************************************************)
(* The two lints manual_inherit (rule A) and manual_inherit_from (rule B)  *)
(* of statix, as pure functions of one element of an rnix syntax tree.     *)
(*                                                                         *)
(* A syntax element is a record [tag, kind, text, children]: a token has   *)
(* tag "Token", its text (a sequence of one-character strings) and no      *)
(* children; a node has tag "Node", the empty text and its children in     *)
(* source order, trivia included.  Option<T> is a sequence of length at    *)
(* most one: None is << >>, Some(x) is <<x>>.                              *)
(***************************************************************************)
EXTENDS Integers, Sequences, FiniteSets, TLC

VARIABLES elem, offset, rule, pc, report

vars == <<elem, offset, rule, pc, report>>

\* ----------------------------------------------------------------- bounds
MaxKeySegs == 2
MaxSelSegs == 2
MaxOffset == 1

\* ---------------------------------------------------------------- options
None == << >>
Some(x) == <<x>>

\* ------------------------------------------------------------ identifiers
a == <<"a">>
mtl == <<"m", "t", "l">>
pkgs == <<"p", "k", "g", "s">>
haskellPackages ==
  <<"h", "a", "s", "k", "e", "l", "l", "P", "a", "c", "k", "a", "g", "e", "s">>

Names == {a, mtl, pkgs, haskellPackages}

\* ----------------------------------------------------------- tree builders
Tok(kind, text) ==
  [tag |-> "Token", kind |-> kind, text |-> text, children |-> << >>]

Node(kind, children) ==
  [tag |-> "Node", kind |-> kind, text |-> << >>, children |-> children]

Ws == Tok("TOKEN_WHITESPACE", <<" ">>)
Dot == Tok("TOKEN_DOT", <<".">>)
Semi == Tok("TOKEN_SEMICOLON", <<";">>)
Assign == Tok("TOKEN_ASSIGN", <<"=">>)

IdentNode(n) == Node("NODE_IDENT", <<Tok("TOKEN_IDENT", n)>>)

StrNode(n) ==
  Node("NODE_STRING", <<Tok("TOKEN_STRING_START", <<"\"">>),
                        Tok("TOKEN_STRING_CONTENT", n),
                        Tok("TOKEN_STRING_END", <<"\"">>)>>)

DynamicNode(e) ==
  Node("NODE_DYNAMIC", <<Tok("TOKEN_INTERPOL_START", <<"$", "{">>), e,
                         Tok("TOKEN_INTERPOL_END", <<"}">>)>>)

ParenNode(e) ==
  Node("NODE_PAREN", <<Tok("TOKEN_L_PAREN", <<"(">>), e,
                       Tok("TOKEN_R_PAREN", <<")">>)>>)

RECURSIVE Dotted(_)
Dotted(segs) ==
  IF segs = << >> THEN << >>
  ELSE IF Len(segs) = 1 THEN segs
  ELSE <<Head(segs), Dot>> \o Dotted(Tail(segs))

AttrpathNode(segs) == Node("NODE_ATTRPATH", Dotted(segs))

\* base and default are options; path is an option of a sequence of segments
SelectNode(base, path, default) ==
  Node("NODE_SELECT",
       base \o <<Dot>>
            \o (IF path = None THEN << >> ELSE <<AttrpathNode(path[1])>>)
            \o (IF default = None THEN << >>
                ELSE <<Ws, Tok("TOKEN_OR", <<"o", "r">>), Ws, default[1]>>))

\* keypath is an option of a sequence of segments, value an option of a node
BindingNode(keypath, value) ==
  Node("NODE_ATTRPATH_VALUE",
       (IF keypath = None THEN << >> ELSE <<AttrpathNode(keypath[1])>>)
         \o <<Ws, Assign, Ws>> \o value \o <<Semi>>)

\* ------------------------------------------------------------------- text
RECURSIVE Text(_)
RECURSIVE TextOfAll(_)
Text(e) == IF e.tag = "Token" THEN e.text ELSE TextOfAll(e.children)
TextOfAll(es) ==
  IF es = << >> THEN << >> ELSE Text(Head(es)) \o TextOfAll(Tail(es))

\* ------------------------------------------------- rnix typed accessors
ExprKinds ==
  {"NODE_APPLY", "NODE_ASSERT", "NODE_ERROR", "NODE_IF_ELSE", "NODE_SELECT",
   "NODE_STRING", "NODE_PATH", "NODE_LITERAL", "NODE_LAMBDA",
   "NODE_LEGACY_LET", "NODE_LET_IN", "NODE_LIST", "NODE_BIN_OP",
   "NODE_PAREN", "NODE_ROOT", "NODE_ATTR_SET", "NODE_UNARY_OP",
   "NODE_IDENT", "NODE_WITH", "NODE_HAS_ATTR"}

AttrKinds == {"NODE_IDENT", "NODE_DYNAMIC", "NODE_STRING"}

IsNode(c) == c.tag = "Node"
IsExpr(c) == c.tag = "Node" /\ c.kind \in ExprKinds
IsAttr(c) == c.tag = "Node" /\ c.kind \in AttrKinds
IsAttrpath(c) == c.tag = "Node" /\ c.kind = "NODE_ATTRPATH"

\* Iterator::next on a fresh iterator
First(s) == IF s = << >> THEN None ELSE Some(Head(s))

AttrpathValue_cast(node) ==
  IF node.kind = "NODE_ATTRPATH_VALUE" THEN Some(node) ELSE None

AttrpathValue_attrpath(stmt) == First(SelectSeq(stmt.children, IsAttrpath))

AttrpathValue_value(stmt) == First(SelectSeq(stmt.children, IsExpr))

Attrpath_attrs(path) == SelectSeq(path.children, IsAttr)

Ident_cast(node) == IF node.kind = "NODE_IDENT" THEN Some(node) ELSE None

Select_cast(node) == IF node.kind = "NODE_SELECT" THEN Some(node) ELSE None

Select_attrpath(sel) == First(SelectSeq(sel.children, IsAttrpath))

Select_expr(sel) == First(SelectSeq(sel.children, IsExpr))

text_range(node, off) == [start |-> off, end |-> off + Len(Text(node))]

\* ------------------------------------------------- tree builder (make)
RECURSIVE Spaced(_)
Spaced(nodes) ==
  IF nodes = << >> THEN << >>
  ELSE IF Len(nodes) = 1 THEN <<IdentNode(Text(Head(nodes)))>>
  ELSE <<IdentNode(Text(Head(nodes))), Ws>> \o Spaced(Tail(nodes))

Inherit == Tok("TOKEN_INHERIT", <<"i", "n", "h", "e", "r", "i", "t">>)

inherit_stmt(nodes) ==
  Node("NODE_INHERIT", <<Inherit, Ws>> \o Spaced(nodes) \o <<Semi>>)

inherit_from_stmt(from, nodes) ==
  Node("NODE_INHERIT",
       <<Inherit, Ws,
         Node("NODE_INHERIT_FROM",
              <<Tok("TOKEN_L_PAREN", <<"(">>), from,
                Tok("TOKEN_R_PAREN", <<")">>)>>),
         Ws>> \o Spaced(nodes) \o <<Semi>>)

\* ------------------------------------------------- reports
Suggestion_new(at, fix) == [at |-> at, fix |-> fix]

Report_new(name, note, code) ==
  [name |-> name, note |-> note, code |-> code, diagnostics |-> << >>]

Report_suggest(rep, at, message, suggestion) ==
  [rep EXCEPT !.diagnostics =
     Append(@, [at |-> at, message |-> message,
                suggestion |-> Some(suggestion)])]

\* ------------------------------------------------- rule A: manual_inherit
ManualInherit_code == 3

ManualInherit_report ==
  Report_new("manual_inherit", "Assignment instead of inherit",
             ManualInherit_code)

ManualInherit_singleKey_Any(attrs) == First(attrs)

\* the one component of a key path that has exactly one, else None
ManualInherit_singleKey(attrs) ==
  IF First(attrs) # None /\ First(Tail(attrs)) = None
  THEN First(attrs) ELSE None

ManualInherit_sameText_Always(key, value) == TRUE

ManualInherit_sameText(key, value) == Text(key) = Text(value)

ManualInherit_at_Key(node, key, off) == text_range(key, off)

ManualInherit_at(node, key, off) == text_range(node, off)

ManualInherit_replacement_Node(node, key) == node

ManualInherit_replacement(node, key) == inherit_stmt(<<key>>)

ManualInherit_validate(node, off) ==
  IF node.tag # "Node" THEN None
  ELSE IF AttrpathValue_cast(node) = None THEN None
  ELSE LET key_value_stmt == AttrpathValue_cast(node)[1]
           key_path == AttrpathValue_attrpath(key_value_stmt)
       IN
  IF key_path = None THEN None
  ELSE LET key_node == ManualInherit_singleKey(Attrpath_attrs(key_path[1])) IN
  IF key_node = None THEN None
  ELSE LET key == Ident_cast(key_node[1]) IN
  IF key = None THEN None
  ELSE LET value_node == AttrpathValue_value(key_value_stmt) IN
  IF value_node = None THEN None
  ELSE LET value == Ident_cast(value_node[1]) IN
  IF value = None THEN None
  ELSE IF ~ManualInherit_sameText(key[1], value[1]) THEN None
  ELSE LET at == ManualInherit_at(node, key[1], off)
           replacement == ManualInherit_replacement(node, key[1])
           \* the message's back quotes are written as single quotes
           message == "This assignment is better written with 'inherit'"
       IN Some(Report_suggest(ManualInherit_report, at, message,
                              Suggestion_new(at, replacement)))

\* -------------------------------------------- rule B: manual_inherit_from
ManualInheritFrom_code == 4

ManualInheritFrom_report ==
  Report_new("manual_inherit_from", "Assignment instead of inherit from",
             ManualInheritFrom_code)

ManualInheritFrom_singleKey(attrs) ==
  IF First(attrs) # None /\ First(Tail(attrs)) = None
  THEN First(attrs) ELSE None

ManualInheritFrom_index_Last(value) ==
  IF Select_attrpath(value) = None THEN None
  ELSE LET attrs == Attrpath_attrs(Select_attrpath(value)[1]) IN
       IF attrs = << >> THEN None ELSE Some(attrs[Len(attrs)])

\* value.attrpath().and_then(|attrs| attrs.attrs().next())
ManualInheritFrom_index(value) ==
  IF Select_attrpath(value) = None THEN None
  ELSE First(Attrpath_attrs(Select_attrpath(value)[1]))

ManualInheritFrom_sameText_Always(key, index) == TRUE

ManualInheritFrom_sameText(key, index) == Text(key) = Text(index)

ManualInheritFrom_at(node, value, off) == text_range(node, off)

ManualInheritFrom_set_Value(value) == Some(value)

ManualInheritFrom_set(value) == Select_expr(value)

ManualInheritFrom_replacement(node, set, key) ==
  inherit_from_stmt(set, <<key>>)

\* the then-branch of the chain: `value.expr()?` leaves validate with None
ManualInheritFrom_then(node, value, key, off) ==
  LET at == ManualInheritFrom_at(node, value, off)
      set == ManualInheritFrom_set(value)
      \* the message's back quotes are written as single quotes
      message == "This assignment is better written with 'inherit'"
  IN IF set = None THEN None
     ELSE Some(Report_suggest(ManualInheritFrom_report, at, message,
            Suggestion_new(at,
              ManualInheritFrom_replacement(node, set[1], key))))

ManualInheritFrom_validate(node, off) ==
  IF node.tag # "Node" THEN None
  ELSE IF AttrpathValue_cast(node) = None THEN None
  ELSE LET key_value_stmt == AttrpathValue_cast(node)[1]
           key_path == AttrpathValue_attrpath(key_value_stmt)
       IN
  IF key_path = None THEN None
  ELSE LET key_node ==
             ManualInheritFrom_singleKey(Attrpath_attrs(key_path[1])) IN
  IF key_node = None THEN None
  ELSE LET key == Ident_cast(key_node[1]) IN
  IF key = None THEN None
  ELSE LET value_node == AttrpathValue_value(key_value_stmt) IN
  IF value_node = None THEN None
  ELSE LET value == Select_cast(value_node[1]) IN
  IF value = None THEN None
  ELSE LET index_node == ManualInheritFrom_index(value[1]) IN
  IF index_node = None THEN None
  ELSE LET index == Ident_cast(index_node[1]) IN
  IF index = None THEN None
  ELSE IF ~ManualInheritFrom_sameText(key[1], index[1]) THEN None
  ELSE ManualInheritFrom_then(node, value[1], key[1], off)

validate(r, node, off) ==
  IF r = "A" THEN ManualInherit_validate(node, off)
  ELSE ManualInheritFrom_validate(node, off)

\* ------------------------------------------------- the elements linted
SeqsUpTo(S, n) == UNION {[1..k -> S] : k \in 0..n}

\* the paths of at most n segments: the first from F, the others from R
PathsUpTo(F, R, n) ==
  {<< >>} \cup {<<f>> \o r : f \in F, r \in SeqsUpTo(R, n - 1)}

KeyAttrs ==
  {IdentNode(n) : n \in Names} \cup {StrNode(a), DynamicNode(IdentNode(a))}

KeyMoreAttrs == {IdentNode(a), IdentNode(pkgs)}

\* None: the binding has no key path node; Some(<< >>): a path with no attr
KeyPaths ==
  {None} \cup {Some(p) : p \in PathsUpTo(KeyAttrs, KeyMoreAttrs, MaxKeySegs)}

SelAttrs == {IdentNode(n) : n \in Names} \cup {StrNode(a)}

SelMoreAttrs == {IdentNode(a), IdentNode(mtl), StrNode(a)}

SelPaths ==
  {None} \cup {Some(p) : p \in PathsUpTo(SelAttrs, SelMoreAttrs, MaxSelSegs)}

Bases ==
  {IdentNode(pkgs), IdentNode(a),
   ParenNode(SelectNode(Some(IdentNode(pkgs)), Some(<<IdentNode(a)>>), None))}

Defaults == {None, Some(IdentNode(pkgs))}

\* None as base: the select lacks its base, with or without an `or` default
Selects ==
  {SelectNode(bs, p, d) :
     bs \in {None} \cup {Some(x) : x \in Bases}, p \in SelPaths, d \in Defaults}

Values ==
  {None} \cup {Some(IdentNode(n)) : n \in Names} \cup {Some(s) : s \in Selects}
         \cup {Some(ParenNode(IdentNode(a))), Some(StrNode(a))}

Bindings == {BindingNode(kp, v) : kp \in KeyPaths, v \in Values}

Others ==
  {Tok("TOKEN_IDENT", a), IdentNode(a),
   SelectNode(Some(IdentNode(pkgs)), Some(<<IdentNode(a)>>), None),
   inherit_stmt(<<IdentNode(a)>>)}

Elements == Bindings \cup Others

\* ------------------------------------------------- state machine
Init ==
  /\ elem \in Elements
  /\ offset \in 0..MaxOffset
  /\ rule = "none"
  /\ pc = "ready"
  /\ report = None

\* the dispatcher hands the element to one rule
Validate(r) ==
  /\ pc = "ready"
  /\ rule' = r
  /\ report' = validate(r, elem, offset)
  /\ pc' = "validated"
  /\ UNCHANGED <<elem, offset>>

\* a suggestion that covers the element is applied: the range is replaced by
\* the rendered replacement, and the element now at that position is the
\* replacement subtree
ApplyFix ==
  /\ pc = "validated"
  /\ report # None
  /\ Len(report[1].diagnostics) > 0
  /\ report[1].diagnostics[1].suggestion # None
  /\ report[1].diagnostics[1].suggestion[1].at = text_range(elem, offset)
  /\ elem' = report[1].diagnostics[1].suggestion[1].fix
  /\ pc' = "fixed"
  /\ UNCHANGED <<offset, rule, report>>

\* the same rule runs again on the element at the fixed position
Revalidate ==
  /\ pc = "fixed"
  /\ report' = validate(rule, elem, offset)
  /\ pc' = "rechecked"
  /\ UNCHANGED <<elem, offset, rule>>

Next ==
  \/ \E r \in {"A", "B"} : Validate(r)
  \/ ApplyFix
  \/ Revalidate

Spec == Init /\ [][Next]_vars

TypeOK ==
  /\ rule \in {"none", "A", "B"}
  /\ pc \in {"ready", "validated", "fixed", "rechecked"}
  /\ offset \in 0..MaxOffset
  /\ Len(report) <= 1

\* ------------------------------------------------- vocabulary of the claims
Matched == pc = "validated" /\ report # None

TheSuggestion == report[1].diagnostics[1].suggestion[1]

InheritSp == <<"i", "n", "h", "e", "r", "i", "t", " ">>

\* the text `inherit <key>;`
InheritText(key) == InheritSp \o key \o <<";">>

\* the text `inherit (<base>) <key>;`
InheritFromText(base, key) ==
  InheritSp \o <<"(">> \o base \o <<")", " ">> \o key \o <<";">>

\* the binding `n = n;`
SelfBinding(n) == BindingNode(Some(<<IdentNode(n)>>), Some(IdentNode(n)))

\* the binding `key = base.seg1.seg2...;` over identifiers
SelectBinding(key, base, segs) ==
  BindingNode(Some(<<IdentNode(key)>>),
    Some(SelectNode(Some(IdentNode(base)),
                    Some([i \in 1..Len(segs) |-> IdentNode(segs[i])]), None)))

IsBinding(e) == e.tag = "Node" /\ e.kind = "NODE_ATTRPATH_VALUE"

KindsOf(es) == {es[i].kind : i \in 1..Len(es)}

NodesOfKind(es, k) == SelectSeq(es, LAMBDA c : c.kind = k)

\* the children of a node that precede its first token of kind k
RECURSIVE Before(_, _)
Before(es, k) ==
  IF es = << >> \/ Head(es).kind = k THEN << >>
  ELSE <<Head(es)>> \o Before(Tail(es), k)

\* the select expression on the right-hand side of a binding
ValueSelect(e) == NodesOfKind(e.children, "NODE_SELECT")[1]

HasValueSelect(e) == IsBinding(e) /\ "NODE_SELECT" \in KindsOf(e.children)

\* the text of the binding's key: what stands before its `=`, less the blank
KeyText(e) ==
  TextOfAll(SelectSeq(Before(e.children, "TOKEN_ASSIGN"),
                      LAMBDA c : c.kind # "TOKEN_WHITESPACE"))

\* the text of a select that stands before its own `.`
BaseText(sel) == TextOfAll(Before(sel.children, "TOKEN_DOT"))

\* ------------------------------------------------- C1
\* C1: rule A returns a report exactly for the bindings `n = n;` (a key path
\* of one plain identifier, a bare identifier as value, equal texts), and no
\* match for every other element.
C1_RuleAMatchesExactlySelfBindings ==
  (pc = "validated" /\ rule = "A") =>
    ((report # None) <=> (\E n \in Names : elem = SelfBinding(n)))

C1_Witness ==
  /\ pc = "validated" /\ rule = "A" /\ report # None
  /\ elem = SelfBinding(mtl)

\* ------------------------------------------------- C2
HasFirstSegment(e) ==
  /\ HasValueSelect(e)
  /\ "NODE_ATTRPATH" \in KindsOf(ValueSelect(e).children)
  /\ SelectSeq(NodesOfKind(ValueSelect(e).children, "NODE_ATTRPATH")[1].children,
               IsNode) # << >>

SelectedSegments(e) ==
  SelectSeq(NodesOfKind(ValueSelect(e).children, "NODE_ATTRPATH")[1].children,
            IsNode)

MapKind(es, k, F(_)) ==
  [i \in 1..Len(es) |-> IF es[i].kind = k THEN F(es[i]) ELSE es[i]]

\* the binding e with the selected segments after the first replaced by tail
ReplaceTail(e, tail) ==
  LET first == SelectedSegments(e)[1]
      NewPath(p) == AttrpathNode(<<first>> \o tail)
      NewSelect(sel) ==
        Node("NODE_SELECT", MapKind(sel.children, "NODE_ATTRPATH", NewPath))
  IN Node("NODE_ATTRPATH_VALUE", MapKind(e.children, "NODE_SELECT", NewSelect))

Tails == SeqsUpTo(SelMoreAttrs, MaxSelSegs - 1)

\* match or no match and, on a match, the synthesized replacement
Outcome(rep) ==
  IF rep = None THEN << >>
  ELSE <<rep[1].diagnostics[1].suggestion[1].fix>>

\* C2: rule B decides from the first selected segment alone: a binding that
\* differs from the validated one only in the segments after the first gets
\* the same match/no-match outcome and the same synthesized replacement.
C2_RuleBFirstSegmentOnly ==
  (pc = "validated" /\ rule = "B" /\ HasFirstSegment(elem)) =>
    \A tail \in Tails :
      Outcome(ManualInheritFrom_validate(ReplaceTail(elem, tail), offset))
        = Outcome(report)

C2_Witness ==
  /\ Matched /\ rule = "B"
  /\ elem = SelectBinding(a, pkgs, <<a, mtl>>)

\* ------------------------------------------------- C3
\* a key path of more than one segment: a `.` stands in the key path
KeyHasSeveralSegments(e) ==
  /\ IsBinding(e)
  /\ "NODE_ATTRPATH" \in KindsOf(e.children)
  /\ "TOKEN_DOT" \in KindsOf(NodesOfKind(e.children, "NODE_ATTRPATH")[1].children)

\* C3: neither rule reports a binding whose key path has more than one
\* segment, whatever the value is.
C3_NoMatchOnDottedKey ==
  (pc = "validated" /\ KeyHasSeveralSegments(elem)) => report = None

\* `pkgs.a = pkgs.a;` under rule B
C3_Witness ==
  /\ pc = "validated" /\ rule = "B"
  /\ elem = BindingNode(Some(<<IdentNode(pkgs), IdentNode(a)>>),
              Some(SelectNode(Some(IdentNode(pkgs)), Some(<<IdentNode(a)>>),
                              None)))

\* ------------------------------------------------- C4
\* C4: a report of rule A carries exactly one suggestion; its range is the
\* whole binding's range and the report's own range, and its replacement is
\* the statement `inherit <key>;`.
C4_RuleAFix ==
  (Matched /\ rule = "A") =>
    /\ Len(report[1].diagnostics) = 1
    /\ report[1].diagnostics[1].suggestion # None
    /\ TheSuggestion.at = report[1].diagnostics[1].at
    /\ TheSuggestion.at.start = offset
    /\ TheSuggestion.at.end = offset + Len(TextOfAll(elem.children))
    /\ TheSuggestion.fix.kind = "NODE_INHERIT"
    /\ Text(TheSuggestion.fix) = InheritText(KeyText(elem))

\* `a = a;` is replaced by `inherit a;`
C4_Witness ==
  /\ Matched /\ rule = "A" /\ elem = SelfBinding(a)
  /\ Text(TheSuggestion.fix) =
       <<"i", "n", "h", "e", "r", "i", "t", " ", "a", ";">>
  /\ TheSuggestion.at = [start |-> offset, end |-> offset + 6]

C6_FixIsIdempotent == pc = "rechecked" => report = None

C6_Witness ==
  /\ pc = "rechecked" /\ rule = "B"
  /\ Text(elem) = InheritFromText(pkgs, a)

\* ------------------------------------------------- C7
\* `pkgs = pkgs.haskellPackages;`
C7_Input == SelectBinding(pkgs, pkgs, <<haskellPackages>>)

\* C7 as stated: on `pkgs = pkgs.haskellPackages;` rule B matches and the
\* replacement is `inherit (pkgs.haskellPackages) pkgs;`.
C7_AsStated ==
  (pc = "validated" /\ rule = "B" /\ elem = C7_Input) =>
    /\ report # None
    /\ Text(TheSuggestion.fix) =
         InheritFromText(pkgs \o <<".">> \o haskellPackages, pkgs)

\* C7 amended: on `pkgs = pkgs.haskellPackages;` rule B returns no match (the
\* first selected segment is `haskellPackages`, not the key `pkgs`); on
\* `haskellPackages = pkgs.haskellPackages;` it matches and the replacement
\* is `inherit (pkgs) haskellPackages;`.
C7_Amended ==
  (pc = "validated" /\ rule = "B") =>
    /\ elem = C7_Input => report = None
    /\ elem = SelectBinding(haskellPackages, pkgs, <<haskellPackages>>) =>
         /\ report # None
         /\ Text(TheSuggestion.fix) = InheritFromText(pkgs, haskellPackages)

C7_Witness ==
  /\ pc = "validated" /\ rule = "B" /\ elem = C7_Input /\ report = None

\* ------------------------------------------------- C8
\* C8: on `mtl = pkgs.haskellPackages.mtl;` rule B matches and the
\* replacement is `inherit (pkgs.haskellPackages) mtl;`.
C8_DocumentedExample ==
  (pc = "validated" /\ rule = "B"
     /\ elem = SelectBinding(mtl, pkgs, <<haskellPackages, mtl>>)) =>
    /\ report # None
    /\ Text(TheSuggestion.fix) =
         InheritFromText(pkgs \o <<".">> \o haskellPackages, mtl)

\* ------------------------------------------------- C9
\* a binding that lacks its key path, a key segment, its value, the path or
\* a segment of its selection, or the base of its selection
Incomplete(e) ==
  /\ IsBinding(e)
  /\ \/ "NODE_ATTRPATH" \notin KindsOf(e.children)
     \/ SelectSeq(NodesOfKind(e.children, "NODE_ATTRPATH")[1].children, IsNode)
          = << >>
     \/ SelectSeq(e.children, IsNode) = NodesOfKind(e.children, "NODE_ATTRPATH")
     \/ /\ HasValueSelect(e)
        /\ \/ ~HasFirstSegment(e)
           \/ BaseText(ValueSelect(e)) = << >>

\* a report is complete: one diagnostic, with a suggestion whose replacement
\* is a whole inherit statement
Complete(rep) ==
  /\ Len(rep.diagnostics) = 1
  /\ rep.diagnostics[1].suggestion # None
  /\ LET fix == rep.diagnostics[1].suggestion[1].fix IN
       /\ fix.kind = "NODE_INHERIT"
       /\ \E k \in Names :
            \/ Text(fix) = InheritText(k)
            \/ \E bs \in Bases : Text(fix) = InheritFromText(Text(bs), k)

\* C9: on a structurally incomplete binding both rules return no match, and
\* no rule ever returns a report without a suggestion or with a partly
\* built replacement.
C9_IncompleteIsNoMatch ==
  pc = "validated" =>
    /\ Incomplete(elem) => report = None
    /\ report # None => Complete(report[1])

\* ------------------------------------------------- C10
\* the text between the parentheses of `inherit (<base>) <key>;`
FixBase(fix, key) == SubSeq(Text(fix), 10, Len(Text(fix)) - Len(key) - 3)

\* C10: when rule B matches, `inherit (base) key;` binds key to the original
\* value: base, `.` and the key are exactly the original right-hand side.
C10_FixPreservesValue ==
  (Matched /\ rule = "B") =>
    FixBase(TheSuggestion.fix, KeyText(elem)) \o <<".">> \o KeyText(elem)
      = Text(ValueSelect(elem))

====
